---- MODULE Spec2Model ----
(***************************************************************************)
(* Model of package config (src/config/config.go): a Config is a Go map    *)
(* from string keys to dynamically typed values, loaded from a JSON        *)
(* document, dumped back, read through plain, typed and "required"         *)
(* accessors and written through Set.                                      *)
(*                                                                         *)
(* Go maps are reference values, so the model keeps a heap of map objects  *)
(* and every Config or map[string]interface{} value is an address into it; *)
(* address 0 is the nil map.  A float64 is modelled in fixed point as a    *)
(* whole number of tenths (3.9 is 39), a JSON number literal as its sign,  *)
(* integer digits and fraction digits, so that parsing and formatting are  *)
(* real conversions.  Load (Loads on the bytes of a file) and Debug (which  *)
(* only logs) are left out.                                                *)
(***************************************************************************)
EXTENDS Integers, Sequences, FiniteSets, TLC

VARIABLES heap, c, sc, c2, stage, call, ret, out, nset

vars == <<heap, c, sc, c2, stage, call, ret, out, nset>>

(***************************************************************************)
(* Bounds of the model.                                                    *)
(***************************************************************************)
\* longest JSON array in a document
MaxLen == 2
\* most members of a top-level JSON object (so a key can occur twice)
MaxMembers == 2
\* most map objects on the heap
MaxHeap == 3
\* most Set calls in one run
MaxSets == 1
\* width of the unsigned integer type in the model (uint64 scaled down)
UintBits == 16

Keys == {"a", "x"}
\* the order json.Marshal writes map keys in (sorted)
KeyOrder == <<"a", "x">>

(***************************************************************************)
(* Go values (type Value interface{}): the pair of the dynamic type and    *)
(* the value of that type, x[T] and x[V].                                  *)
(***************************************************************************)
T == 1
V == 2
NilValue == <<"nil", 0>>
BoolV(b) == <<"bool", b>>
Float64V(tenths) == <<"float64", tenths>>
Int64V(n) == <<"int64", n>>
Uint64V(n) == <<"uint64", n>>
StringV(s) == <<"string", s>>
SliceV(s) == <<"slice", s>>
MapV(a) == <<"map", a>>
\* static result types of the accessors that are not a Value
ConfigV(a) == <<"Config", a>>
TypedSliceV(type, s) == <<"[]T", type, s>>
BytesV(d) == <<"[]byte", d>>

ErrNil == "nil"
ErrNoSuchKey == "No such key"
ErrSyntax == "json.SyntaxError"
ErrUnmarshalType == "json.UnmarshalTypeError"

(***************************************************************************)
(* Map objects: a function whose domain is the set of keys present.        *)
(***************************************************************************)
EmptyMap == [k \in {} |-> NilValue]
MapSet(m, k, v) == [x \in (DOMAIN m) \cup {k} |-> IF x = k THEN v ELSE m[x]]
\* the map object a Config value designates; reading the nil map reads nothing
Deref(hp, a) == IF a = 0 THEN EmptyMap ELSE hp[a]

(***************************************************************************)
(* JSON documents as text: the syntax tree, numbers as literals, object    *)
(* members as a sequence in the order written.                             *)
(***************************************************************************)
JInvalid == [k |-> "invalid"]
JNull == [k |-> "null"]
JBool(b) == [k |-> "bool", b |-> b]
JNum(neg, int, frac) == [k |-> "num", neg |-> neg, int |-> int, frac |-> frac]
JStr(s) == [k |-> "str", s |-> s]
JArr(items) == [k |-> "arr", items |-> items]
JObj(members) == [k |-> "obj", members |-> members]

\* strconv.ParseFloat on a number literal
ParseFloat(lit) ==
    LET mag == lit.int * 10 + (IF lit.frac = <<>> THEN 0 ELSE lit.frac[1])
    IN IF lit.neg THEN 0 - mag ELSE mag

\* a bug FormatFloat could have: the number written without its fraction
FormatFloat_NoFraction(f) ==
    LET mag == IF f < 0 THEN 0 - f ELSE f
    IN JNum(f < 0, mag \div 10, <<>>)

\* strconv.AppendFloat(b, f, 'f', -1, 64): the shortest literal that reads back
FormatFloat(f) ==
    LET mag == IF f < 0 THEN 0 - f ELSE f
    IN JNum(f < 0, mag \div 10, IF mag % 10 = 0 THEN <<>> ELSE <<mag % 10>>)

FormatInt(n) == JNum(n < 0, IF n < 0 THEN 0 - n ELSE n, <<>>)

\* a string literal read: an escape stands for its character
Unquote(lit) == IF lit = "\\u003c" THEN "<" ELSE lit

\* a string written: json.Marshal escapes <, > and & for HTML
Quote(str) == IF str = "<" THEN "\\u003c" ELSE str

(***************************************************************************)
(* json.Unmarshal into interface{}: objects become fresh maps (made first, *)
(* then filled member by member, a repeated key overwriting), arrays       *)
(* []interface{}, numbers float64, string literals their characters.       *)
(***************************************************************************)
RECURSIVE DecodeValue(_, _), DecodeMembers(_, _, _, _), DecodeItems(_, _, _, _)
DecodeValue(hp, d) ==
    CASE d.k = "null" -> [hp |-> hp, val |-> NilValue]
      [] d.k = "bool" -> [hp |-> hp, val |-> BoolV(d.b)]
      [] d.k = "num" -> [hp |-> hp, val |-> Float64V(ParseFloat(d))]
      [] d.k = "str" -> [hp |-> hp, val |-> StringV(Unquote(d.s))]
      [] d.k = "arr" -> DecodeItems(hp, d.items, 1, <<>>)
      [] d.k = "obj" -> DecodeMembers(Append(hp, EmptyMap), Len(hp) + 1, d.members, 1)

DecodeMembers(hp, a, ms, i) ==
    IF i > Len(ms) THEN [hp |-> hp, val |-> MapV(a)]
    ELSE LET r == DecodeValue(hp, ms[i][2])
         IN DecodeMembers([r.hp EXCEPT ![a] = MapSet(@, Unquote(ms[i][1]), r.val)], a, ms, i + 1)

DecodeItems(hp, items, i, acc) ==
    IF i > Len(items) THEN [hp |-> hp, val |-> SliceV(acc)]
    ELSE LET r == DecodeValue(hp, items[i])
         IN DecodeItems(r.hp, items, i + 1, Append(acc, r.val))

\* Loads: json.Unmarshal(data, &c) with c the nil Config
LoadsOp(hp, d) ==
    CASE d.k = "invalid" -> [hp |-> hp, c |-> 0, err |-> ErrSyntax]
      [] d.k = "null" -> [hp |-> hp, c |-> 0, err |-> ErrNil]
      [] d.k = "obj" -> LET r == DecodeValue(hp, d)
                        IN [hp |-> r.hp, c |-> r.val[V], err |-> ErrNil]
      [] OTHER -> [hp |-> hp, c |-> 0, err |-> ErrUnmarshalType]

(***************************************************************************)
(* json.Marshal: map keys are written sorted, a nil map as null, float64   *)
(* in the shortest form that reads back, integers in decimal, strings      *)
(* escaped.                                                                *)
(***************************************************************************)
RECURSIVE EncodeValue(_, _), EncodeMembers(_, _, _, _), EncodeItems(_, _, _, _)
EncodeValue(hp, v) ==
    CASE v[T] = "nil" -> JNull
      [] v[T] = "bool" -> JBool(v[V])
      [] v[T] = "float64" -> FormatFloat(v[V])
      [] v[T] \in {"int64", "uint64"} -> FormatInt(v[V])
      [] v[T] = "string" -> JStr(Quote(v[V]))
      [] v[T] = "slice" -> EncodeItems(hp, v[V], 1, <<>>)
      [] v[T] = "map" -> IF v[V] = 0 THEN JNull ELSE EncodeMembers(hp, hp[v[V]], 1, <<>>)

EncodeMembers(hp, m, i, acc) ==
    IF i > Len(KeyOrder) THEN JObj(acc)
    ELSE EncodeMembers(hp, m, i + 1,
            IF KeyOrder[i] \in DOMAIN m
            THEN Append(acc, <<Quote(KeyOrder[i]), EncodeValue(hp, m[KeyOrder[i]])>>)
            ELSE acc)

EncodeItems(hp, s, i, acc) ==
    IF i > Len(s) THEN JArr(acc)
    ELSE EncodeItems(hp, s, i + 1, Append(acc, EncodeValue(hp, s[i])))

(***************************************************************************)
(* What a call does: it returns (val, err), panics, or exits the process.  *)
(* hp is the heap the call leaves, fx what it logged and exited with.      *)
(***************************************************************************)
Return(hp, val, err) ==
    [kind |-> "return", val |-> val, err |-> err, hp |-> hp, fx |-> <<>>]
Panic(hp) ==
    [kind |-> "panic", val |-> NilValue, err |-> ErrNil, hp |-> hp, fx |-> <<>>]
\* what the process shows the outside: a logged line, the exit status
Errorf(key) == [ev |-> "log.Errorf", key |-> key, code |-> 0]
OsExit(code) == [ev |-> "os.Exit", key |-> "", code |-> code]

\* Dumps: json.Marshal(c); no value of the model is unsupported by Marshal
DumpsOp(hp, a) == Return(hp, BytesV(EncodeValue(hp, MapV(a))), ErrNil)

\* a bug Float64ToInt64 could have: rounding down instead of toward zero
Float64ToInt64_Floor(f) == f \div 10

\* int64(f) for a float64 f in range: the fraction is discarded
Float64ToInt64(f) == IF f >= 0 THEN f \div 10 ELSE 0 - ((0 - f) \div 10)

\* uint64(f): as int64(f) when that is not negative; otherwise the value is
\* implementation-dependent (wraps on amd64, 0 on arm64, all ones elsewhere)
Float64ToUint64(f) ==
    LET n == Float64ToInt64(f)
    IN IF n >= 0 THEN {n} ELSE {0, 2^UintBits + n, 2^UintBits - 1}

\* Get
GetOp(hp, a, key) ==
    LET m == Deref(hp, a)
    IN IF key \notin DOMAIN m THEN Return(hp, NilValue, ErrNoSuchKey)
       ELSE Return(hp, m[key], ErrNil)

\* GetString: val.(string)
GetStringOp(hp, a, key) ==
    LET m == Deref(hp, a)
    IN IF key \notin DOMAIN m THEN Return(hp, StringV(""), ErrNoSuchKey)
       ELSE IF m[key][T] = "string" THEN Return(hp, m[key], ErrNil)
       ELSE Panic(hp)

\* GetInt64: int64(val.(float64))
GetInt64Op(hp, a, key) ==
    LET m == Deref(hp, a)
    IN IF key \notin DOMAIN m THEN Return(hp, Int64V(0), ErrNoSuchKey)
       ELSE IF m[key][T] = "float64" THEN Return(hp, Int64V(Float64ToInt64(m[key][V])), ErrNil)
       ELSE Panic(hp)

\* GetUint64: uint64(val.(float64)); the set of possible outcomes
GetUint64Op(hp, a, key) ==
    LET m == Deref(hp, a)
    IN IF key \notin DOMAIN m THEN {Return(hp, Uint64V(0), ErrNoSuchKey)}
       ELSE IF m[key][T] = "float64"
            THEN {Return(hp, Uint64V(n), ErrNil) : n \in Float64ToUint64(m[key][V])}
       ELSE {Panic(hp)}

\* a bug GetSubConfigOp could have: Config{} returned in every case
GetSubConfigOp_Empty(hp, a, key) ==
    Return(Append(hp, EmptyMap), ConfigV(Len(hp) + 1), GetOp(hp, a, key).err)

\* a change GetSubConfigOp could have: the nested map copied, not shared
GetSubConfigOp_Copy(hp, a, key) ==
    LET r == GetOp(hp, a, key)
    IN IF r.err # ErrNil THEN Return(Append(hp, EmptyMap), ConfigV(Len(hp) + 1), r.err)
       ELSE IF r.val[T] = "map"
            THEN Return(Append(hp, Deref(hp, r.val[V])), ConfigV(Len(hp) + 1), ErrNil)
       ELSE Panic(hp)

\* GetSubConfig: Config{} with the error of Get, else the map the value
\* designates, seen as a Config (the pointer cast keeps the same map)
GetSubConfigOp(hp, a, key) ==
    LET r == GetOp(hp, a, key)
    IN IF r.err # ErrNil THEN Return(Append(hp, EmptyMap), ConfigV(Len(hp) + 1), r.err)
       ELSE IF r.val[T] = "map" THEN Return(hp, ConfigV(r.val[V]), ErrNil)
       ELSE Panic(hp)

\* a bug GetRequiredOp could have: the error of Get dropped
GetRequiredOp_NoExit(hp, a, key) == Return(hp, GetOp(hp, a, key).val, ErrNil)

\* GetRequired: log.Errorf and os.Exit(1) when Get fails
GetRequiredOp(hp, a, key) ==
    LET r == GetOp(hp, a, key)
    IN IF r.err # ErrNil
       THEN [kind |-> "exit", val |-> NilValue, err |-> ErrNil, hp |-> hp,
             fx |-> <<Errorf(key), OsExit(1)>>]
       ELSE Return(hp, r.val, ErrNil)

\* GetRequiredSubConfig
GetRequiredSubConfigOp(hp, a, key) ==
    LET r == GetRequiredOp(hp, a, key)
    IN IF r.kind # "return" THEN r
       ELSE IF r.val[T] = "map" THEN Return(hp, ConfigV(r.val[V]), ErrNil)
       ELSE Panic(hp)

\* GetRequiredString
GetRequiredStringOp(hp, a, key) ==
    LET r == GetRequiredOp(hp, a, key)
    IN IF r.kind # "return" THEN r
       ELSE IF r.val[T] = "string" THEN Return(hp, r.val, ErrNil)
       ELSE Panic(hp)

\* GetRequiredInt64: an int64 as it is, otherwise int64(val.(float64))
GetRequiredInt64Op(hp, a, key) ==
    LET r == GetRequiredOp(hp, a, key)
    IN IF r.kind # "return" THEN r
       ELSE IF r.val[T] = "int64" THEN Return(hp, r.val, ErrNil)
       ELSE IF r.val[T] = "float64" THEN Return(hp, Int64V(Float64ToInt64(r.val[V])), ErrNil)
       ELSE Panic(hp)

\* GetRequiredUint64: a uint64 as it is, otherwise uint64(val.(float64))
GetRequiredUint64Op(hp, a, key) ==
    LET r == GetRequiredOp(hp, a, key)
    IN IF r.kind # "return" THEN {r}
       ELSE IF r.val[T] = "uint64" THEN {Return(hp, r.val, ErrNil)}
       ELSE IF r.val[T] = "float64"
            THEN {Return(hp, Uint64V(n), ErrNil) : n \in Float64ToUint64(r.val[V])}
       ELSE {Panic(hp)}

\* the loop of the slice accessors: out = append(out, e.(T)) for each e
AssertEach(hp, s, type) ==
    IF \A i \in 1..Len(s) : s[i][T] = type
    THEN Return(hp, TypedSliceV(type, [i \in 1..Len(s) |-> s[i][V]]), ErrNil)
    ELSE Panic(hp)

\* a bug GetRequiredStringSliceOp could have: e, ok := e.(string), the
\* elements that are no strings skipped
GetRequiredStringSliceOp_SkipsWrong(hp, a, key) ==
    LET r == GetRequiredOp(hp, a, key)
        IsString(e) == e[T] = "string"
    IN IF r.kind # "return" THEN r
       ELSE IF r.val[T] = "slice"
            THEN AssertEach(hp, SelectSeq(r.val[V], IsString), "string")
       ELSE Panic(hp)

\* GetRequiredStringSlice
GetRequiredStringSliceOp(hp, a, key) ==
    LET r == GetRequiredOp(hp, a, key)
    IN IF r.kind # "return" THEN r
       ELSE IF r.val[T] = "slice" THEN AssertEach(hp, r.val[V], "string")
       ELSE Panic(hp)

\* GetRequiredUint64Slice
GetRequiredUint64SliceOp(hp, a, key) ==
    LET r == GetRequiredOp(hp, a, key)
    IN IF r.kind # "return" THEN r
       ELSE IF r.val[T] = "slice" THEN AssertEach(hp, r.val[V], "uint64")
       ELSE Panic(hp)

\* GetRequiredInt64Slice
GetRequiredInt64SliceOp(hp, a, key) ==
    LET r == GetRequiredOp(hp, a, key)
    IN IF r.kind # "return" THEN r
       ELSE IF r.val[T] = "slice" THEN AssertEach(hp, r.val[V], "int64")
       ELSE Panic(hp)

\* Set: (*c)[key] = value; assignment to an entry of the nil map panics
SetOp(hp, a, key, value) ==
    IF a = 0 THEN Panic(hp)
    ELSE Return([hp EXCEPT ![a] = MapSet(@, key, value)], NilValue, ErrNil)

(***************************************************************************)
(* The inputs.                                                             *)
(***************************************************************************)
SeqsUpTo(S, n) == UNION {[1..m -> S] : m \in 0..n}

Num(n) == JNum(FALSE, n, <<>>)
ScalarDocs == {JNull, JBool(TRUE), JNum(FALSE, 3, <<9>>), JNum(TRUE, 3, <<9>>),
               JNum(FALSE, 42, <<0>>), JStr("v"), JStr("<"), JStr("\\u003c")}
ArrayDocs == {JArr(s) : s \in SeqsUpTo({Num(1), JStr("a")}, MaxLen)}
InnerDocs == {JObj(<<>>), JObj(<< <<"a", Num(1)>> >>)}
MemberDocs == ScalarDocs \cup ArrayDocs \cup InnerDocs
ObjectDocs == {JObj(ms) : ms \in SeqsUpTo(Keys \X MemberDocs, MaxMembers)}
OtherDocs == {JInvalid, JNull, JBool(FALSE), Num(42), JStr("v"),
              JArr(<<>>), JArr(<<Num(1)>>)}
\* the documents the round trip is run on
Docs == ObjectDocs \cup OtherDocs

\* the documents the accessors are run on
MainDocs ==
    { JObj(<< <<"a", JNum(FALSE, 3, <<9>>)>>, <<"x", JNum(TRUE, 3, <<9>>)>> >>),
      JObj(<< <<"a", JStr("v")>>, <<"x", JNull>> >>),
      JObj(<< <<"a", JArr(<<JStr("a"), JStr("b")>>)>>, <<"x", JArr(<<Num(1), Num(2)>>)>> >>),
      JObj(<< <<"a", JArr(<<JStr("a"), Num(1)>>)>>, <<"x", Num(42)>> >>),
      JObj(<< <<"x", JObj(<< <<"a", Num(1)>> >>)>>, <<"a", JStr("v")>> >>),
      JNull, JArr(<<Num(1)>>), JInvalid }

\* the values a caller passes to Set; MapLit is map[string]interface{}{}
MapLit == <<"maplit", 0>>
SetArgs == {StringV("v"), Int64V(7), Uint64V(7), MapLit}

Handles == {"c", "sc"}

(***************************************************************************)
(* The state: the heap of maps; c, the caller's Config; sc, the Config the *)
(* last GetSubConfig returned (with the key it was asked for and whether   *)
(* the parent still holds that nested map under that key); c2, the Config  *)
(* loaded from a dump; the last call (with its receiver) and what it       *)
(* returned; what the process logged and exited with.                      *)
(***************************************************************************)
NoCall == [op |-> "none", h |-> "c", recv |-> 0, key |-> "", arg |-> NilValue]
NoRet == [kind |-> "none", val |-> NilValue, err |-> ErrNil]
NoSub == [addr |-> 0, held |-> FALSE, key |-> "", attached |-> FALSE]

Init ==
    /\ heap = <<>>
    /\ c = 0
    /\ sc = NoSub
    /\ c2 = [c |-> 0, err |-> "none"]
    /\ stage = "start"
    /\ call = NoCall
    /\ ret = NoRet
    /\ out = <<>>
    /\ nset = 0

Held(h) == stage = "ready" /\ (h = "sc" => sc.held)
Addr(h) == IF h = "c" THEN c ELSE sc.addr

\* the call returns to its caller, or the process ends in a panic or an exit
Finish(op, h, key, arg, o) ==
    /\ call' = [op |-> op, h |-> h, recv |-> Addr(h), key |-> key, arg |-> arg]
    /\ heap' = o.hp
    /\ out' = out \o o.fx
    /\ ret' = IF o.kind = "return"
              THEN [kind |-> "return", val |-> o.val, err |-> o.err]
              ELSE NoRet
    /\ stage' = CASE o.kind = "return" -> stage
                  [] o.kind = "panic" -> "panicked"
                  [] o.kind = "exit" -> "exited"

Loads(d) ==
    /\ stage = "start"
    /\ LET r == LoadsOp(heap, d)
       IN /\ heap' = r.hp
          /\ c' = r.c
          /\ ret' = [kind |-> "return", val |-> ConfigV(r.c), err |-> r.err]
          /\ stage' = IF r.err = ErrNil THEN "ready" ELSE "failed"
    /\ call' = [NoCall EXCEPT !.op = "Loads", !.arg = BytesV(d)]
    /\ UNCHANGED <<sc, c2, out, nset>>

\* c, err := Loads(data) for some document of D
LoadsAny(D) == stage = "start" /\ \E d \in D : Loads(d)

\* direct construction: c := Config{}
New ==
    /\ stage = "start"
    /\ heap' = Append(heap, EmptyMap)
    /\ c' = Len(heap) + 1
    /\ stage' = "ready"
    /\ call' = [NoCall EXCEPT !.op = "New"]
    /\ ret' = [kind |-> "return", val |-> ConfigV(Len(heap) + 1), err |-> ErrNil]
    /\ UNCHANGED <<sc, c2, out, nset>>

Dumps(h) ==
    /\ Held(h)
    /\ Finish("Dumps", h, "", NilValue, DumpsOp(heap, Addr(h)))
    /\ UNCHANGED <<c, sc, c2, nset>>

\* c2, err := Loads(dump) on the bytes Dumps returned
Reloads ==
    /\ stage = "ready"
    /\ call.op = "Dumps" /\ call.h = "c"
    /\ c2.err = "none"
    /\ LET r == LoadsOp(heap, ret.val[V])
       IN /\ heap' = r.hp
          /\ c2' = [c |-> r.c, err |-> r.err]
          /\ ret' = [kind |-> "return", val |-> ConfigV(r.c), err |-> r.err]
    /\ call' = [NoCall EXCEPT !.op = "Loads", !.h = "c2", !.arg = ret.val]
    /\ UNCHANGED <<c, sc, stage, out, nset>>

Get(h, key) ==
    /\ Held(h)
    /\ Finish("Get", h, key, NilValue, GetOp(heap, Addr(h), key))
    /\ UNCHANGED <<c, sc, c2, nset>>

GetString(h, key) ==
    /\ Held(h)
    /\ Finish("GetString", h, key, NilValue, GetStringOp(heap, Addr(h), key))
    /\ UNCHANGED <<c, sc, c2, nset>>

GetInt64(h, key) ==
    /\ Held(h)
    /\ Finish("GetInt64", h, key, NilValue, GetInt64Op(heap, Addr(h), key))
    /\ UNCHANGED <<c, sc, c2, nset>>

GetUint64(h, key) ==
    /\ Held(h)
    /\ \E o \in GetUint64Op(heap, Addr(h), key) : Finish("GetUint64", h, key, NilValue, o)
    /\ UNCHANGED <<c, sc, c2, nset>>

\* sc, err := c.GetSubConfig(key)
SubReturned(h, key, o) ==
    IF o.kind = "return"
    THEN [addr |-> o.val[V], held |-> TRUE, key |-> key,
          attached |-> (h = "c" /\ o.err = ErrNil)]
    ELSE sc

GetSubConfig(h, key) ==
    /\ Held(h)
    /\ LET o == GetSubConfigOp(heap, Addr(h), key)
       IN Len(o.hp) <= MaxHeap /\ Finish("GetSubConfig", h, key, NilValue, o) /\ sc' = SubReturned(h, key, o)
    /\ UNCHANGED <<c, c2, nset>>

GetRequiredSubConfig(h, key) ==
    /\ Held(h)
    /\ LET o == GetRequiredSubConfigOp(heap, Addr(h), key)
       IN Finish("GetRequiredSubConfig", h, key, NilValue, o) /\ sc' = SubReturned(h, key, o)
    /\ UNCHANGED <<c, c2, nset>>

GetRequired(h, key) ==
    /\ Held(h)
    /\ Finish("GetRequired", h, key, NilValue, GetRequiredOp(heap, Addr(h), key))
    /\ UNCHANGED <<c, sc, c2, nset>>

GetRequiredString(h, key) ==
    /\ Held(h)
    /\ Finish("GetRequiredString", h, key, NilValue, GetRequiredStringOp(heap, Addr(h), key))
    /\ UNCHANGED <<c, sc, c2, nset>>

GetRequiredInt64(h, key) ==
    /\ Held(h)
    /\ Finish("GetRequiredInt64", h, key, NilValue, GetRequiredInt64Op(heap, Addr(h), key))
    /\ UNCHANGED <<c, sc, c2, nset>>

GetRequiredUint64(h, key) ==
    /\ Held(h)
    /\ \E o \in GetRequiredUint64Op(heap, Addr(h), key) :
          Finish("GetRequiredUint64", h, key, NilValue, o)
    /\ UNCHANGED <<c, sc, c2, nset>>

GetRequiredStringSlice(h, key) ==
    /\ Held(h)
    /\ Finish("GetRequiredStringSlice", h, key, NilValue,
              GetRequiredStringSliceOp(heap, Addr(h), key))
    /\ UNCHANGED <<c, sc, c2, nset>>

GetRequiredUint64Slice(h, key) ==
    /\ Held(h)
    /\ Finish("GetRequiredUint64Slice", h, key, NilValue,
              GetRequiredUint64SliceOp(heap, Addr(h), key))
    /\ UNCHANGED <<c, sc, c2, nset>>

GetRequiredInt64Slice(h, key) ==
    /\ Held(h)
    /\ Finish("GetRequiredInt64Slice", h, key, NilValue,
              GetRequiredInt64SliceOp(heap, Addr(h), key))
    /\ UNCHANGED <<c, sc, c2, nset>>

\* h.Set(key, arg); a map literal is made before the call
Set(h, key, arg) ==
    /\ Held(h)
    /\ nset < MaxSets
    /\ arg = MapLit => Len(heap) < MaxHeap
    /\ LET hp == IF arg = MapLit THEN Append(heap, EmptyMap) ELSE heap
           value == IF arg = MapLit THEN MapV(Len(heap) + 1) ELSE arg
       IN Finish("Set", h, key, value, SetOp(hp, Addr(h), key, value))
    /\ nset' = nset + 1
    /\ sc' = IF h = "c" /\ key = sc.key THEN [sc EXCEPT !.attached = FALSE] ELSE sc
    /\ UNCHANGED <<c, c2>>

Next ==
    \/ LoadsAny(MainDocs)
    \/ New
    \/ \E h \in Handles : Dumps(h)
    \/ \E h \in Handles, key \in Keys : Get(h, key)
    \/ \E h \in Handles, key \in Keys : GetString(h, key)
    \/ \E h \in Handles, key \in Keys : GetInt64(h, key)
    \/ \E h \in Handles, key \in Keys : GetUint64(h, key)
    \/ \E h \in Handles, key \in Keys : GetSubConfig(h, key)
    \/ \E h \in Handles, key \in Keys : GetRequiredSubConfig(h, key)
    \/ \E h \in Handles, key \in Keys : GetRequired(h, key)
    \/ \E h \in Handles, key \in Keys : GetRequiredString(h, key)
    \/ \E h \in Handles, key \in Keys : GetRequiredInt64(h, key)
    \/ \E h \in Handles, key \in Keys : GetRequiredUint64(h, key)
    \/ \E h \in Handles, key \in Keys : GetRequiredStringSlice(h, key)
    \/ \E h \in Handles, key \in Keys : GetRequiredUint64Slice(h, key)
    \/ \E h \in Handles, key \in Keys : GetRequiredInt64Slice(h, key)
    \/ \E h \in Handles, key \in Keys, arg \in SetArgs : Set(h, key, arg)

Spec == Init /\ [][Next]_vars

\* Loads, Dumps, Loads again: the round trip, on every document of Docs
NextRT ==
    \/ LoadsAny(Docs)
    \/ Dumps("c")
    \/ Reloads

SpecRT == Init /\ [][NextRT]_vars

(***************************************************************************)
(* The claims.  They read the last call, its receiver's map and what the   *)
(* call returned.                                                          *)
(***************************************************************************)
Recv == Deref(heap, call.recv)
Present == call.key \in DOMAIN Recv
Stored == Recv[call.key]
Returned(val, err) == stage = "ready" /\ ret = [kind |-> "return", val |-> val, err |-> err]
Faulted == stage = "panicked" /\ ret = NoRet
NumberTypes == {"float64", "int64", "uint64"}
RequiredOps == {"GetRequired", "GetRequiredString", "GetRequiredInt64", "GetRequiredUint64",
                "GetRequiredSubConfig", "GetRequiredStringSlice",
                "GetRequiredUint64Slice", "GetRequiredInt64Slice"}
SliceOps == {"GetRequiredStringSlice", "GetRequiredUint64Slice", "GetRequiredInt64Slice"}

\* the integer part of a float64 given in tenths, by its defining property
TruncTowardZero(f) ==
    LET mag == IF f < 0 THEN 0 - f ELSE f
        n == CHOOSE q \in 0..mag : q * 10 <= mag /\ mag < q * 10 + 10
    IN IF f < 0 THEN 0 - n ELSE n

\* C3: every GetRequired* call on an absent key ends the process with exit
\* status 1 (non-zero), the line naming the key logged before the exit and
\* nothing returned; GetRequired on a present key returns what Get returns
\* and the process goes on, nothing logged.
C3_RequiredMissingExits ==
    call.op \in RequiredOps =>
        /\ ~Present =>
              /\ stage = "exited"
              /\ ret = NoRet
              /\ Len(out) = 2
              /\ out[1].ev = "log.Errorf" /\ out[1].key = call.key
              /\ out[2].ev = "os.Exit" /\ out[2].code = 1 /\ out[2].code # 0
        /\ (Present /\ call.op = "GetRequired") =>
              /\ Returned(Stored, ErrNil)
              /\ ret.val = GetOp(heap, call.recv, call.key).val
              /\ out = <<>>
        /\ Present => stage # "exited"

C3_Witness ==
    /\ call.op = "GetRequiredInt64Slice"
    /\ call.key = "x"
    /\ "a" \in DOMAIN Recv
    /\ ~Present
    /\ stage = "exited"

\* C4: a required typed accessor returns no value when the stored value has
\* the wrong dynamic type (GetRequiredString on a non-string, GetRequiredInt64
\* and GetRequiredUint64 on a non-number, a slice accessor on a non-sequence
\* or on a sequence with an element of the wrong type): the call panics;
\* GetRequiredStringSlice on a sequence of strings returns them in order.
WrongElem(e) ==
    IF call.op = "GetRequiredStringSlice" THEN e[T] # "string" ELSE e[T] \notin NumberTypes

C4_RequiredWrongTypeFaults ==
    (call.op \in RequiredOps /\ Present) =>
        /\ (call.op = "GetRequiredString" /\ Stored[T] # "string") => Faulted
        /\ (call.op \in {"GetRequiredInt64", "GetRequiredUint64"}
               /\ Stored[T] \notin NumberTypes) => Faulted
        /\ (call.op \in SliceOps /\ Stored[T] # "slice") => Faulted
        /\ (call.op \in SliceOps /\ Stored[T] = "slice"
               /\ \E i \in 1..Len(Stored[V]) : WrongElem(Stored[V][i])) => Faulted
        /\ (call.op = "GetRequiredStringSlice" /\ Stored[T] = "slice"
               /\ \A i \in 1..Len(Stored[V]) : Stored[V][i][T] = "string") =>
              /\ stage = "ready" /\ ret.kind = "return"
              /\ Len(ret.val[3]) = Len(Stored[V])
              /\ \A i \in 1..Len(Stored[V]) : ret.val[3][i] = Stored[V][i][V]

C4_Witness ==
    /\ call.op = "GetRequiredStringSlice"
    /\ Present
    /\ Stored = SliceV(<<StringV("a"), Float64V(10)>>)
    /\ Faulted

\* C7: GetInt64 and GetUint64 on a stored float64 whose integer part the
\* requested type can hold return that integer part (truncation toward zero):
\* 42 gives 42, 3.9 gives 3, and GetInt64 on -3.9 gives -3.
C7_TruncatesTowardZero ==
    (call.op \in {"GetInt64", "GetUint64"} /\ Present /\ Stored[T] = "float64"
        /\ (call.op = "GetUint64" => TruncTowardZero(Stored[V]) >= 0)) =>
        Returned(<<IF call.op = "GetInt64" THEN "int64" ELSE "uint64",
                   TruncTowardZero(Stored[V])>>, ErrNil)

C7_Witness ==
    /\ call.op = "GetInt64"
    /\ Present
    /\ Stored = Float64V(0 - 39)
    /\ ret.val = Int64V(0 - 3)

\* a value with the maps it designates written out: what value-equality compares
RECURSIVE Tree(_, _)
Tree(hp, v) ==
    CASE v[T] = "map" ->
            LET m == Deref(hp, v[V])
            IN <<"map", [k \in DOMAIN m |-> Tree(hp, m[k])]>>
      [] v[T] = "slice" -> <<"slice", [i \in 1..Len(v[V]) |-> Tree(hp, v[V][i])]>>
      [] OTHER -> v

OutcomeIs(o) == IF o.kind = "return" THEN Returned(o.val, o.err) ELSE Faulted

\* the nested map the parent c holds under the key sc was asked for
Nested == Deref(heap, c)[sc.key]

\* C8: GetSubConfig on a key holding a nested map returns, with no error, a
\* Config with exactly the nested map's entries, and Get, GetString and GetInt64
\* on it give what the lookup in the nested map gives ({"a":1}: GetInt64("a")
\* is 1); on an absent key it returns ErrNoSuchKey and an empty, non-nil Config.
C8_SubConfigViewsNested ==
    /\ (call.op = "GetSubConfig" /\ Present /\ Stored[T] = "map") =>
          /\ stage = "ready" /\ ret.kind = "return" /\ ret.err = ErrNil
          /\ ret.val[T] = "Config"
          /\ sc.addr = ret.val[V]
          /\ DOMAIN Deref(heap, ret.val[V]) = DOMAIN Deref(heap, Stored[V])
          /\ \A j \in Keys :
                /\ GetOp(heap, ret.val[V], j) = GetOp(heap, Stored[V], j)
                /\ GetInt64Op(heap, ret.val[V], j) = GetInt64Op(heap, Stored[V], j)
    /\ (call.op = "GetSubConfig" /\ ~Present) =>
          /\ stage = "ready" /\ ret.kind = "return" /\ ret.err = ErrNoSuchKey
          /\ ret.val[T] = "Config" /\ ret.val[V] # 0
          /\ Deref(heap, ret.val[V]) = EmptyMap
    /\ (call.h = "sc" /\ sc.attached /\ call.op = "Get") =>
          OutcomeIs(GetOp(heap, Nested[V], call.key))
    /\ (call.h = "sc" /\ sc.attached /\ call.op = "GetString") =>
          OutcomeIs(GetStringOp(heap, Nested[V], call.key))
    /\ (call.h = "sc" /\ sc.attached /\ call.op = "GetInt64") =>
          OutcomeIs(GetInt64Op(heap, Nested[V], call.key))

C8_Witness ==
    /\ call.h = "sc" /\ sc.attached /\ sc.key = "x"
    /\ call.op = "GetInt64" /\ call.key = "a"
    /\ Nested[T] = "map" /\ Deref(heap, Nested[V])["a"] = Float64V(10)
    /\ Returned(Int64V(1), ErrNil)

\* C10: the Config GetSubConfig (or GetRequiredSubConfig) returned shares its
\* entries with the parent's nested map: after sub.Set(j, v), a later
\* parent.GetSubConfig(k) (or GetRequiredSubConfig(k)) followed by Get(j)
\* returns (v, nil); the Set leaves every other top-level key of the parent
\* and every other key of the sub-store as it was.
SubSetSeen ==
    (call.op = "Set" /\ call.h = "sc" /\ sc.attached) =>
        /\ stage = "ready"
        /\ \A r \in {GetSubConfigOp(heap, c, sc.key), GetRequiredSubConfigOp(heap, c, sc.key)} :
              /\ r.kind = "return" /\ r.err = ErrNil
              /\ GetOp(r.hp, r.val[V], call.key) = Return(r.hp, call.arg, ErrNil)

SubSetFrame ==
    (call'.op = "Set" /\ call'.h = "sc" /\ nset' = nset + 1 /\ sc.attached) =>
        LET P == Deref(heap, c)
            P2 == Deref(heap', c)
            S == Deref(heap, sc.addr)
            S2 == Deref(heap', sc.addr)
        IN /\ DOMAIN P2 = DOMAIN P
           /\ \A k \in DOMAIN P \ {sc.key} :
                 P2[k] = P[k] /\ Tree(heap', P2[k]) = Tree(heap, P[k])
           /\ DOMAIN S2 = DOMAIN S \cup {call'.key}
           /\ \A j \in DOMAIN S \ {call'.key} :
                 S2[j] = S[j] /\ Tree(heap', S2[j]) = Tree(heap, S[j])

C10_SubConfigShares == [] SubSetSeen /\ [][SubSetFrame]_vars

C10_Witness ==
    /\ call.op = "Set" /\ call.h = "sc" /\ sc.attached /\ sc.key = "x"
    /\ call.key = "x" /\ call.arg = StringV("v")
    /\ Deref(heap, c)["a"] = StringV("v")
    /\ Deref(heap, Nested[V]) = [k \in {"a", "x"} |-> IF k = "a" THEN Float64V(10) ELSE StringV("v")]

\* C5: for every JSON object d, Loads(d) succeeds, Dumps of the result
\* succeeds, and loading the dump gives a store value-equal to the first (same
\* keys, same value per key, nested maps and arrays compared by content), whose
\* integral numbers GetInt64 reads as the same integers.
C5_DumpLoadRoundTrip ==
    /\ (call.op = "Loads" /\ call.h = "c" /\ call.arg[V].k = "obj") =>
          stage = "ready" /\ ret.err = ErrNil /\ c # 0
    /\ (call.op = "Dumps" /\ c # 0) => Returned(ret.val, ErrNil) /\ ret.val[T] = "[]byte"
    /\ (c2.err # "none" /\ c # 0) =>
          /\ c2.err = ErrNil
          /\ c2.c # 0
          /\ Tree(heap, MapV(c2.c)) = Tree(heap, MapV(c))
          /\ \A k \in DOMAIN Deref(heap, c) :
                LET v == Deref(heap, c)[k]
                IN (v[T] = "float64" /\ v[V] % 10 = 0) =>
                      GetInt64Op(heap, c2.c, k).val = Int64V(TruncTowardZero(v[V]))

C5_Witness ==
    /\ c2.err = ErrNil /\ c # 0 /\ c2.c # c
    /\ DOMAIN Deref(heap, c2.c) = {"a", "x"}
    /\ Deref(heap, c2.c)["x"] = Float64V(0 - 39)
    /\ Deref(heap, c2.c)["a"][T] = "map"
    /\ Deref(heap, Deref(heap, c2.c)["a"][V]) = [k \in {"a"} |-> Float64V(10)]

\* C1 (as claimed): on every store a successful Loads or a construction gave,
\* Set never fails and Get returns exactly the value last Set or loaded for the
\* key, and ErrNoSuchKey exactly when the key is absent.
C1_SetNeverFailsGetExact ==
    /\ call.op = "Set" =>
          /\ stage = "ready"
          /\ GetOp(heap, call.recv, call.key) = Return(heap, call.arg, ErrNil)
    /\ call.op = "Get" =>
          IF Present THEN Returned(Stored, ErrNil) ELSE stage = "ready" /\ ret.err = ErrNoSuchKey

\* C2 (as claimed): GetString, GetInt64, GetUint64 and GetSubConfig never
\* panic; on a present key of an incompatible dynamic type they return a
\* TypeMismatch error, on an absent key ErrNoSuchKey.
Compatible ==
    CASE call.op = "GetString" -> Stored[T] = "string"
      [] call.op \in {"GetInt64", "GetUint64"} -> Stored[T] \in NumberTypes
      [] call.op = "GetSubConfig" -> Stored[T] = "map"

C2_OptionalAccessorsReturnErrors ==
    call.op \in {"GetString", "GetInt64", "GetUint64", "GetSubConfig"} =>
        /\ stage = "ready" /\ ret.kind = "return"
        /\ ~Present => ret.err = ErrNoSuchKey
        /\ (Present /\ ~Compatible) => ret.err = "TypeMismatch"

\* C6 (as claimed): Loads returns an error and no store unless the buffer is
\* a JSON object; a store returned without error is a map that accepts Set.
C6_LoadsOnlyObjects ==
    call.op = "Loads" =>
        /\ call.arg[V].k # "obj" => ret.err # ErrNil
        /\ ret.err = ErrNil =>
              /\ call.arg[V].k = "obj"
              /\ SetOp(heap, ret.val[V], "a", StringV("v")).kind = "return"

\* C9 (as claimed): GetRequiredInt64Slice and GetRequiredUint64Slice on an
\* array of integral JSON numbers return those integers in order.
C9_IntSlicesCoerceElements ==
    (call.op \in {"GetRequiredInt64Slice", "GetRequiredUint64Slice"} /\ Present
        /\ Stored[T] = "slice"
        /\ \A i \in 1..Len(Stored[V]) :
              Stored[V][i][T] = "float64" /\ Stored[V][i][V] % 10 = 0 /\ Stored[V][i][V] >= 0) =>
        /\ stage = "ready" /\ ret.kind = "return" /\ ret.err = ErrNil
        /\ ret.val[3] = [i \in 1..Len(Stored[V]) |-> TruncTowardZero(Stored[V][i][V])]

====
